---------------------------- MODULE Spec2Model ----------------------------
(***************************************************************************)
(* Model of the ConsultEase faculty desk unit's memory optimisation code   *)
(* (src/faculty_desk_unit/optimizations/memory_optimization.cpp): the      *)
(* global OptimizedStringHandler (the spec's "Accumulator"), the message   *)
(* processing, field extraction and display re-flow built on it, the       *)
(* MemoryMonitor and the allocation wrappers; and of the proximity         *)
(* debounce state machine that config.h configures.                        *)
(*                                                                         *)
(* Bytes are their ASCII codes, 0 is the terminator.  A C string is a      *)
(* sequence of non-zero bytes (its terminator is implied); a char array is *)
(* a function on 0 .. size-1, as the source indexes it.  A pointer into a  *)
(* string is a 0-based offset and NULL is -1.                              *)
(***************************************************************************)
EXTENDS Integers, Sequences, FiniteSets

VARIABLES
    buffer,      \* globalStringHandler.buffer
    bufferPos,   \* globalStringHandler.bufferPos
    content,     \* history: the bytes appended successfully since the last reset
    last,        \* history: the last handler call, its argument, result and pre-state
    nOps,        \* number of handler calls made so far
    pc,          \* "idle": a message is waiting; "done": it has been processed
    input,       \* the payload handed to optimizedProcessMessage
    outputSize,  \* the caller's outputSize
    output,      \* the caller's output array, indices 0 .. outputSize-1
    outside,     \* the indices >= outputSize the call wrote to
    path,        \* which branch of optimizedProcessMessage produced the output
    rendered,    \* the fields[] indices whose label, value and newline were appended
    refused,     \* the number of append() calls of the field loop that returned false
    payload,     \* history: the fields the input was written from
    key,         \* the field name handed to optimizedJSONExtract
    nulls,       \* which of its pointer arguments are null
    ret,         \* what it returned
    presence,    \* PresenceState: current, consecutive_count, streak, last_observation_time
    debounce,    \* the configured debounce threshold
    now,         \* the time of the control loop, in ms
    events,      \* the state-change events emitted so far
    seen,        \* history: the classifications of the observations so far
    trace,       \* history: one record per step of the state machine
    lastCheck,   \* MemoryMonitor::lastCheck, an unsigned long of 32 bits
    minFreeHeap, \* MemoryMonitor::minFreeHeap
    bootMillis,  \* what millis() read when the clock below was 0
    clock,       \* the time in ms since then
    mon,         \* history: initialised, the readings sampled since, the record times
    sample,      \* history: the last run of checkMemory
    alloc,       \* history: the last call of optimizedMalloc
    wait         \* the call that is waiting in delay(10) of forceGarbageCollection

accVars  == <<buffer, bufferPos, content, last, nOps>>
procVars == <<pc, input, outputSize, output, outside, path, rendered, refused, payload>>
extVars  == <<key, nulls, ret>>
presVars == <<presence, debounce, now, events, seen, trace>>
monVars  == <<lastCheck, minFreeHeap, bootMillis, clock, mon, sample, alloc, wait>>
otherVars == <<extVars, presVars, monVars>>
vars     == <<accVars, procVars, otherVars>>

(***************************************************************************)
(* Bounds.  memory_optimization.h, which sets MAX_MESSAGE_LENGTH, is not   *)
(* among the sources; the model runs the code with a scaled-down capacity  *)
(* and every formula below is stated in terms of it.                       *)
(***************************************************************************)
MAX_MESSAGE_LENGTH == 52

MaxOps == 4

NULL == 0 - 1

(***************************************************************************)
(* C library helpers, as the source uses them.                             *)
(***************************************************************************)
Rep(c, n) == [i \in 1..n |-> c]

Take(s, n) == SubSeq(s, 1, IF n < Len(s) THEN n ELSE Len(s))

\* strcpy(buf + at, str): Len(str) bytes and the terminator.
strcpy(buf, at, str) ==
    [i \in DOMAIN buf |->
        IF i >= at /\ i < at + Len(str) THEN str[i - at + 1]
        ELSE IF i = at + Len(str) THEN 0
        ELSE buf[i]]

\* The C string held in a char array: the bytes before the first terminator.
CString(buf) ==
    LET n == Cardinality(DOMAIN buf)
        stop == IF \E i \in 0..n-1 : buf[i] = 0
                THEN CHOOSE i \in 0..n-1 :
                         buf[i] = 0 /\ \A j \in 0..i-1 : buf[j] # 0
                ELSE n
    IN  [k \in 1..stop |-> buf[k - 1]]

(***************************************************************************)
(* OptimizedStringHandler.  h is [buffer, bufferPos].                      *)
(***************************************************************************)
reset_nothing(h) == h

reset_keepsBuffer(h) == [bufferPos |-> 0, buffer |-> h.buffer]

reset(h) ==
    [bufferPos |-> 0,
     buffer    |-> [i \in 0..MAX_MESSAGE_LENGTH-1 |-> 0]]

appendStr_partial(h, str) ==
    LET len == Len(str) IN
    IF h.bufferPos + len >= MAX_MESSAGE_LENGTH - 1
    THEN [h |-> [bufferPos |-> h.bufferPos,
                 buffer |-> strcpy(h.buffer, h.bufferPos,
                                   Take(str, MAX_MESSAGE_LENGTH - 2 - h.bufferPos))],
          ret |-> FALSE]
    ELSE [h |-> [bufferPos |-> h.bufferPos + len,
                 buffer    |-> strcpy(h.buffer, h.bufferPos, str)],
          ret |-> TRUE]

\* bool OptimizedStringHandler::append(const char* str)
appendStr(h, str) ==
    LET len == Len(str) IN
    IF h.bufferPos + len >= MAX_MESSAGE_LENGTH - 1
    THEN [h |-> h, ret |-> FALSE]
    ELSE [h |-> [bufferPos |-> h.bufferPos + len,
                 buffer    |-> strcpy(h.buffer, h.bufferPos, str)],
          ret |-> TRUE]

appendChar_noReserve(h, c) ==
    IF h.bufferPos >= MAX_MESSAGE_LENGTH
    THEN [h |-> h, ret |-> FALSE]
    ELSE [h |-> [bufferPos |-> h.bufferPos + 1,
                 buffer    |-> [i \in DOMAIN h.buffer |->
                                   IF i = h.bufferPos THEN c
                                   ELSE IF i = h.bufferPos + 1 THEN 0
                                   ELSE h.buffer[i]]],
          ret |-> TRUE]

\* bool OptimizedStringHandler::append(char c)
appendChar(h, c) ==
    IF h.bufferPos >= MAX_MESSAGE_LENGTH - 1
    THEN [h |-> h, ret |-> FALSE]
    ELSE [h |-> [bufferPos |-> h.bufferPos + 1,
                 buffer    |-> [i \in DOMAIN h.buffer |->
                                   IF i = h.bufferPos THEN c
                                   ELSE IF i = h.bufferPos + 1 THEN 0
                                   ELSE h.buffer[i]]],
          ret |-> TRUE]

getString(h) == CString(h.buffer)

length(h) == h.bufferPos

clear(h) == reset(h)

globalStringHandler == [buffer |-> buffer, bufferPos |-> bufferPos]

(***************************************************************************)
(* The handler driven by arbitrary calls.                                  *)
(***************************************************************************)
\* Arguments of append(const char*): C strings of every length around the limit.
AppendStrings ==
    { Rep(97, n) : n \in {0, 1, 2, MAX_MESSAGE_LENGTH - 3, MAX_MESSAGE_LENGTH - 2,
                          MAX_MESSAGE_LENGTH - 1, MAX_MESSAGE_LENGTH} }

\* Arguments of append(char): any byte, the terminator included.
AppendBytes == {0, 10, 98}

NoCall == [op |-> "none", arg |-> <<>>, ret |-> TRUE,
           pre |-> [bufferPos |-> 0, buffer |-> [i \in 0..MAX_MESSAGE_LENGTH-1 |-> 0]]]

IdleProc ==
    /\ pc = "none"
    /\ input = <<>>
    /\ outputSize = 0
    /\ output = <<>>
    /\ outside = {}
    /\ path = "none"
    /\ rendered = {}
    /\ refused = 0
    /\ payload = [kind |-> "none", items |-> <<>>, closed |-> TRUE]

IdleExt ==
    /\ key = "none"
    /\ nulls = {}
    /\ ret = FALSE

\* #define MAC_DETECTION_DEBOUNCE 2
MAC_DETECTION_DEBOUNCE == 2

\* PresenceState at initialisation: ABSENT, no sample seen.
InitialPresence ==
    [current |-> "ABSENT", consecutive_count |-> 0, streak |-> "none",
     last_observation_time |-> 0]

IdlePres ==
    /\ presence = InitialPresence
    /\ debounce = MAC_DETECTION_DEBOUNCE
    /\ now = 0
    /\ events = <<>>
    /\ seen = <<>>
    /\ trace = <<>>

\* An unsigned long: 32 bits, held as two halves of 16 bits.
Half == 2^16

U32(hi, lo) == [hi |-> hi, lo |-> lo]

NoSample == [currentFree |-> 0, at |-> 0, since |-> 0, logged |-> FALSE,
             warned |-> FALSE, gc |-> 0, pre |-> 0]

NoAlloc == [size |-> 0, free |-> 0, recheck |-> 0, low |-> FALSE, ptr |-> "none",
            malloc |-> FALSE, gcBefore |-> 0, gc |-> 0, sampled |-> FALSE,
            logged |-> FALSE, currentFree |-> 0]

\* No call is inside forceGarbageCollection.  Otherwise in names the caller
\* of forceGarbageCollection, until is the time delay(10) ends, and size and
\* free are the argument and the first reading of a waiting optimizedMalloc.
NoWait == [in |-> "none", until |-> 0, size |-> 0, free |-> 0]

\* unsigned long MemoryMonitor::lastCheck = 0; size_t MemoryMonitor::minFreeHeap = 0;
IdleMon ==
    /\ lastCheck = U32(0, 0)
    /\ minFreeHeap = 0
    /\ bootMillis = U32(0, 0)
    /\ clock = 0
    /\ mon = [initialised |-> FALSE, samples |-> {}, records |-> <<>>, logged |-> 0,
              n |-> 0]
    /\ sample = NoSample
    /\ alloc = NoAlloc
    /\ wait = NoWait

IdleOther == IdleExt /\ IdlePres /\ IdleMon

Init ==
    /\ buffer = [i \in 0..MAX_MESSAGE_LENGTH-1 |-> 0]
    /\ bufferPos = 0
    /\ content = <<>>
    /\ last = NoCall
    /\ nOps = 0
    /\ IdleProc
    /\ IdleOther

Reset ==
    /\ nOps < MaxOps
    /\ \E h \in {reset(globalStringHandler)} :
        /\ buffer' = h.buffer
        /\ bufferPos' = h.bufferPos
    /\ content' = <<>>
    /\ last' = [op |-> "reset", arg |-> <<>>, ret |-> TRUE, pre |-> globalStringHandler]
    /\ nOps' = nOps + 1
    /\ UNCHANGED <<procVars, otherVars>>

Clear ==
    /\ nOps < MaxOps
    /\ \E h \in {clear(globalStringHandler)} :
        /\ buffer' = h.buffer
        /\ bufferPos' = h.bufferPos
    /\ content' = <<>>
    /\ last' = [op |-> "clear", arg |-> <<>>, ret |-> TRUE, pre |-> globalStringHandler]
    /\ nOps' = nOps + 1
    /\ UNCHANGED <<procVars, otherVars>>

AppendStr ==
    /\ nOps < MaxOps
    /\ \E str \in AppendStrings :
        \E r \in {appendStr(globalStringHandler, str)} :
        /\ buffer' = r.h.buffer
        /\ bufferPos' = r.h.bufferPos
        /\ content' = IF r.ret THEN content \o str ELSE content
        /\ last' = [op |-> "appendStr", arg |-> str, ret |-> r.ret,
                    pre |-> globalStringHandler]
    /\ nOps' = nOps + 1
    /\ UNCHANGED <<procVars, otherVars>>

AppendChar ==
    /\ nOps < MaxOps
    /\ \E c \in AppendBytes :
        \E r \in {appendChar(globalStringHandler, c)} :
        /\ buffer' = r.h.buffer
        /\ bufferPos' = r.h.bufferPos
        /\ content' = IF r.ret THEN Append(content, c) ELSE content
        /\ last' = [op |-> "appendChar", arg |-> <<c>>, ret |-> r.ret,
                    pre |-> globalStringHandler]
    /\ nOps' = nOps + 1
    /\ UNCHANGED <<procVars, otherVars>>

Next == Reset \/ Clear \/ AppendStr \/ AppendChar

Spec == Init /\ [][Next]_vars

(***************************************************************************)
(* Properties of the handler, checked under Spec.                          *)
(***************************************************************************)
IsAppend == last.op \in {"appendStr", "appendChar"}

\* C2: after any sequence of reset and append calls, length <= capacity - 1,
\* buffer[length] is the terminator and the first `length` bytes of the buffer
\* are exactly the bytes appended successfully since the last reset; when none
\* of them is the terminator value, getString() is that text.
AccumulatorTerminated ==
    /\ bufferPos <= MAX_MESSAGE_LENGTH - 1
    /\ buffer[bufferPos] = 0
    /\ Len(content) = length(globalStringHandler)
    /\ \A i \in 1..Len(content) : buffer[i - 1] = content[i]
    /\ (\A i \in 1..Len(content) : content[i] # 0)
           => getString(globalStringHandler) = content

\* The handler is full (length = capacity - 1) after a successful append(char).
AccumulatorFull ==
    /\ last.op = "appendChar"
    /\ last.ret
    /\ bufferPos = MAX_MESSAGE_LENGTH - 1
    /\ last.pre.bufferPos = MAX_MESSAGE_LENGTH - 2

\* C3: an append that returns true extends the content by exactly its argument;
\* one that returns false leaves length and every buffer byte as they were.
AppendAllOrNothing ==
    IsAppend =>
        IF last.ret
        THEN /\ bufferPos = last.pre.bufferPos + Len(last.arg)
             /\ \A i \in 0..last.pre.bufferPos-1 : buffer[i] = last.pre.buffer[i]
             /\ \A k \in 1..Len(last.arg) :
                    buffer[last.pre.bufferPos + k - 1] = last.arg[k]
             /\ buffer[bufferPos] = 0
        ELSE /\ bufferPos = last.pre.bufferPos
             /\ buffer = last.pre.buffer

\* A non-empty sequence was refused by a handler that already held text and
\* still had room for a part of it.
AppendStrRefused ==
    /\ last.op = "appendStr"
    /\ ~last.ret
    /\ last.pre.bufferPos > 0
    /\ last.pre.bufferPos < MAX_MESSAGE_LENGTH - 2
    /\ Len(last.arg) > 0

\* C4: both overloads refuse exactly when length + n reaches or exceeds
\* capacity - 1, so no sequence of calls takes the length past what one
\* append(sequence) can reach.
AppendSameLimit ==
    /\ IsAppend =>
          (~last.ret <=>
              last.pre.bufferPos + Len(last.arg) >= MAX_MESSAGE_LENGTH - 1)
    /\ bufferPos <= MAX_MESSAGE_LENGTH - 2

\* C5: on an empty handler a sequence of capacity bytes is refused and leaves
\* length 0, a sequence of capacity - 1 bytes is accepted and leaves
\* length = capacity - 1.
AppendStrScenarioD ==
    (last.op = "appendStr" /\ last.pre.bufferPos = 0) =>
        /\ Len(last.arg) = MAX_MESSAGE_LENGTH => (~last.ret /\ bufferPos = 0)
        /\ Len(last.arg) = MAX_MESSAGE_LENGTH - 1 =>
               (last.ret /\ bufferPos = MAX_MESSAGE_LENGTH - 1)

\* C6: after reset() the length is 0 and every buffer byte is zero, and a
\* second reset() leaves that state as it is.
ResetIdempotent ==
    last.op \in {"reset", "clear"} =>
        /\ bufferPos = 0
        /\ \A i \in 0..MAX_MESSAGE_LENGTH-1 : buffer[i] = 0
        /\ reset(globalStringHandler) = globalStringHandler

\* reset() acted on a handler that held text.
ResetOfUsedHandler ==
    /\ last.op = "reset"
    /\ last.pre.bufferPos > 0
    /\ \E i \in 0..MAX_MESSAGE_LENGTH-1 : last.pre.buffer[i] # 0

(***************************************************************************)
(* optimizedProcessMessage and the string routines it uses.                *)
(***************************************************************************)
\* Whether needle occurs in hay at 0-based offset i.
MatchAt(hay, needle, i) ==
    /\ i + Len(needle) <= Len(hay)
    /\ \A k \in 1..Len(needle) : hay[i + k] = needle[k]

\* strstr(hay, needle): the offset of the first occurrence, or NULL.
strstr(hay, needle) ==
    IF \E i \in 0..Len(hay) : MatchAt(hay, needle, i)
    THEN CHOOSE i \in 0..Len(hay) :
             MatchAt(hay, needle, i) /\ \A j \in 0..i-1 : ~MatchAt(hay, needle, j)
    ELSE NULL

\* strchr(s + from, c) for a non-zero c: the offset of the first c, or NULL.
strchr(s, from, c) ==
    IF \E i \in from..Len(s)-1 : s[i + 1] = c
    THEN CHOOSE i \in from..Len(s)-1 :
             s[i + 1] = c /\ \A j \in from..i-1 : s[j + 1] # c
    ELSE NULL

\* Bytes written through a pointer to an array of `size` bytes: those inside
\* the array change it, the indices of the others are kept.
Store(dest, writes) ==
    [mem     |-> [i \in DOMAIN dest |->
                     IF i \in DOMAIN writes THEN writes[i] ELSE dest[i]],
     outside |-> {i \in DOMAIN writes : i \notin DOMAIN dest}]

optimizedStringCopy_noRoomForTerminator(dest, src, maxLen) ==
    LET n == IF Len(src) < maxLen THEN Len(src) ELSE maxLen IN
    Store(dest, [i \in 0..n |-> IF i < n THEN src[i + 1] ELSE 0])

\* void optimizedStringCopy(char* dest, const char* src, size_t maxLen), maxLen > 0
optimizedStringCopy(dest, src, maxLen) ==
    LET n == IF Len(src) < maxLen - 1 THEN Len(src) ELSE maxLen - 1 IN
    Store(dest, [i \in 0..n |-> IF i < n THEN src[i + 1] ELSE 0])

\* SAFE_STRING_COPY(dest, src, size): the bounded, truncating, terminated copy.
SAFE_STRING_COPY(dest, src, size) == optimizedStringCopy(dest, src, size)

\* The literal "\"message\":\"" of the short-circuit search.
messagePattern == <<34, 109, 101, 115, 115, 97, 103, 101, 34, 58, 34>>

\* const char* fields[] = {"student_name", "course_code", "request_message"}
fields ==
    << <<115, 116, 117, 100, 101, 110, 116, 95, 110, 97, 109, 101>>,
       <<99, 111, 117, 114, 115, 101, 95, 99, 111, 100, 101>>,
       <<114, 101, 113, 117, 101, 115, 116, 95, 109, 101, 115, 115, 97, 103, 101>> >>

\* "Student: ", "Course: ", "Request: "
labels ==
    << <<83, 116, 117, 100, 101, 110, 116, 58, 32>>,
       <<67, 111, 117, 114, 115, 101, 58, 32>>,
       <<82, 101, 113, 117, 101, 115, 116, 58, 32>> >>

\* snprintf(searchStr, sizeof(searchStr), "\"%s\":\"", fields[i]) into char[32]
searchStr(i) == Take(<<34>> \o fields[i] \o <<34, 58, 34>>, 31)

\* The number of calls among rs that returned false.
Refusals(rs) == Cardinality({k \in 1..Len(rs) : ~rs[k].ret})

\* globalStringHandler.append(fieldStart[j]); st is [h, bytes, refused], bytes
\* the part of the value still to append and refused counting the calls that
\* returned false.
appendByte(st) ==
    LET r == appendChar(st.h, Head(st.bytes)) IN
    [h |-> r.h, bytes |-> Tail(st.bytes),
     refused |-> st.refused + Refusals(<<r>>)]

\* for (j = 0; j < fieldLen; j++) globalStringHandler.append(fieldStart[j]);
RECURSIVE appendEach(_)
appendEach(st) ==
    IF st.bytes = <<>> THEN st ELSE appendEach(appendByte(st))

fieldGuard_whatFits(h, fieldLen) ==
    length(h) + fieldLen + 10 < MAX_MESSAGE_LENGTH

fieldGuard_noMargin(h, fieldLen) ==
    fieldLen > 0 /\ length(h) + fieldLen < MAX_MESSAGE_LENGTH

\* fieldLen > 0 && globalStringHandler.length() + fieldLen + 20 < MAX_MESSAGE_LENGTH
fieldGuard(h, fieldLen) ==
    fieldLen > 0 /\ length(h) + fieldLen + 20 < MAX_MESSAGE_LENGTH

\* One iteration of the loop over fields[], i in 1..3; st is [h, rendered,
\* refused].
renderField(st, in, i) ==
    LET fieldStart0 == strstr(in, searchStr(i)) IN
    IF fieldStart0 = NULL THEN st
    ELSE
      LET fieldStart == fieldStart0 + Len(searchStr(i))
          fieldEnd   == strchr(in, fieldStart, 34)
      IN
      IF fieldEnd = NULL THEN st
      ELSE
        LET fieldLen == fieldEnd - fieldStart IN
        IF fieldGuard(st.h, fieldLen)
        THEN LET a1 == appendStr(st.h, labels[i])
                 a2 == appendEach([h |-> a1.h, refused |-> 0,
                                   bytes |-> SubSeq(in, fieldStart + 1, fieldEnd)])
                 a3 == appendChar(a2.h, 10)
             IN  [h |-> a3.h, rendered |-> st.rendered \cup {i},
                  refused |-> st.refused + Refusals(<<a1, a3>>) + a2.refused]
        ELSE st

renderFields_inputOrder(h, in) ==
    LET at(i) == strstr(in, searchStr(i))
        first == IF at(2) # NULL /\ (at(1) = NULL \/ at(2) < at(1)) THEN 2 ELSE 1
        second == 3 - first
    IN  renderField(
            renderField(
                renderField([h |-> h, rendered |-> {}, refused |-> 0], in, first),
                in, second),
            in, 3)

\* for (int i = 0; i < 3; i++) { ... }
renderFields(h, in) ==
    renderField(
        renderField(
            renderField([h |-> h, rendered |-> {}, refused |-> 0], in, 1),
            in, 2),
        in, 3)

NoMessage == [found |-> FALSE, start |-> 0, len |-> 0]

messageValue_shortSkip(in) ==
    LET messageStart0 == strstr(in, messagePattern) IN
    IF messageStart0 = NULL THEN NoMessage
    ELSE
      LET messageStart == messageStart0 + 10
          messageEnd   == strchr(in, messageStart + 1, 34)
      IN
      IF messageEnd = NULL THEN NoMessage
      ELSE
        LET messageLen == messageEnd - messageStart IN
        IF messageLen < MAX_MESSAGE_LENGTH - 1
        THEN [found |-> TRUE, start |-> messageStart, len |-> messageLen]
        ELSE NoMessage

messageValue_truncates(in) ==
    LET messageStart0 == strstr(in, messagePattern) IN
    IF messageStart0 = NULL THEN NoMessage
    ELSE
      LET messageStart == messageStart0 + 11
          messageEnd   == strchr(in, messageStart, 34)
      IN
      IF messageEnd = NULL THEN NoMessage
      ELSE
        LET messageLen == messageEnd - messageStart IN
        IF messageLen < MAX_MESSAGE_LENGTH - 1
        THEN [found |-> TRUE, start |-> messageStart, len |-> messageLen]
        ELSE [found |-> TRUE, start |-> messageStart,
              len |-> MAX_MESSAGE_LENGTH - 2]

\* The short-circuit test: where the value of the "message" field starts and
\* how long it is; found is FALSE when the search, the closing quote or the
\* length test fails.
messageValue(in) ==
    LET messageStart0 == strstr(in, messagePattern) IN
    IF messageStart0 = NULL THEN NoMessage
    ELSE
      LET messageStart == messageStart0 + 11
          messageEnd   == strchr(in, messageStart, 34)
      IN
      IF messageEnd = NULL THEN NoMessage
      ELSE
        LET messageLen == messageEnd - messageStart IN
        IF messageLen < MAX_MESSAGE_LENGTH - 1
        THEN [found |-> TRUE, start |-> messageStart, len |-> messageLen]
        ELSE NoMessage

\* strncpy(output, messageStart, messageLen); output[messageLen] = '\0';
copyMessage(out, in, m) ==
    Store(out, [i \in 0..m.len |->
                   IF i < m.len THEN in[m.start + i + 1] ELSE 0])

\* void optimizedProcessMessage(const char* input, char* output, size_t outputSize)
\* for non-null arguments and outputSize > 0.
optimizedProcessMessage(h, in, out, size) ==
    LET h0 == reset(h) IN
    IF in # <<>> /\ in[1] = 123
    THEN
      LET m == messageValue(in) IN
      IF m.found
      THEN LET w == copyMessage(out, in, m) IN
           [h |-> h0, output |-> w.mem, outside |-> w.outside,
            path |-> "message", rendered |-> {}, refused |-> 0]
      ELSE LET st == renderFields(h0, in)
               w  == SAFE_STRING_COPY(out, getString(st.h), size)
           IN  [h |-> st.h, output |-> w.mem, outside |-> w.outside,
                path |-> "fields", rendered |-> st.rendered, refused |-> st.refused]
    ELSE LET w == SAFE_STRING_COPY(out, in, size) IN
         [h |-> h0, output |-> w.mem, outside |-> w.outside,
          path |-> "plain", rendered |-> {}, refused |-> 0]


(***************************************************************************)
(* The messages the unit receives.  A structured payload is written from a *)
(* list of fields, each a key and a value without quotes:                  *)
(*     {"key":"value","key":"value"}                                       *)
(* and may arrive cut off inside its last value (no closing quote).        *)
(***************************************************************************)
KeyBytes ==
    [message         |-> <<109, 101, 115, 115, 97, 103, 101>>,
     student_name    |-> fields[1],
     course_code     |-> fields[2],
     request_message |-> fields[3],
     id              |-> <<105, 100>>]

\* The values each field is given; the lengths sit on both sides of the
\* limits of the code.
FieldValues ==
    [message         |-> {<<>>, <<104, 105>>,
                          Rep(109, MAX_MESSAGE_LENGTH - 2),
                          Rep(109, MAX_MESSAGE_LENGTH - 1)},
     student_name    |-> {<<>>, <<65, 108, 105, 99, 101>>,
                          Rep(115, MAX_MESSAGE_LENGTH - 21),
                          Rep(115, MAX_MESSAGE_LENGTH - 20)},
     course_code     |-> {<<>>, <<67, 83, 49, 48, 49>>,
                          Rep(99, MAX_MESSAGE_LENGTH - 36),
                          Rep(99, MAX_MESSAGE_LENGTH - 35)},
     request_message |-> {<<114>>, Rep(114, MAX_MESSAGE_LENGTH - 50),
                          Rep(114, MAX_MESSAGE_LENGTH - 49)},
     id              |-> {<<55>>}]

\* The orders the fields are written in.
FieldOrders ==
    { <<"message", "student_name", "course_code", "request_message", "id">>,
      <<"id", "request_message", "course_code", "student_name", "message">> }

Field(k, v) == [key |-> k, value |-> v]

RECURSIVE ItemLists(_)
ItemLists(order) ==
    IF order = <<>> THEN { <<>> }
    ELSE LET rest == ItemLists(Tail(order)) IN
         rest \cup
         { <<Field(Head(order), v)>> \o r : v \in FieldValues[Head(order)], r \in rest }

RECURSIVE RenderItems(_, _)
RenderItems(items, closed) ==
    IF items = <<>> THEN <<>>
    ELSE LET f == Head(items)
             one == <<34>> \o KeyBytes[f.key] \o <<34, 58, 34>> \o f.value
         IN  IF Len(items) = 1
             THEN one \o (IF closed THEN <<34>> ELSE <<>>)
             ELSE one \o <<34, 44>> \o RenderItems(Tail(items), closed)

RenderPayload(p) ==
    <<123>> \o RenderItems(p.items, p.closed) \o (IF p.closed THEN <<125>> ELSE <<>>)

StructuredPayloads ==
    { [kind |-> "structured", items |-> it, closed |-> c] :
          it \in UNION { ItemLists(o) : o \in FieldOrders }, c \in BOOLEAN }

\* Plain text: empty, short, long, and text that holds a payload but does not
\* start with '{'.
PlainTexts ==
    { <<>>, <<72, 105>>, Rep(120, MAX_MESSAGE_LENGTH - 1), Rep(120, MAX_MESSAGE_LENGTH + 3),
      <<72, 105, 32>> \o RenderPayload([items |-> <<Field("message", <<104, 105>>)>>,
                                        closed |-> TRUE]) }

PlainPayload == [kind |-> "plain", items |-> <<>>, closed |-> TRUE]

\* The capacities of the caller's output array.
OutputSizes == {1, 8, MAX_MESSAGE_LENGTH}

\* What the caller's array holds before the call.
Junk(size) == [i \in 0..size-1 |-> 35]

InitProcess ==
    /\ buffer = [i \in 0..MAX_MESSAGE_LENGTH-1 |-> 0]
    /\ bufferPos = 0
    /\ content = <<>>
    /\ last = NoCall
    /\ nOps = 0
    /\ pc = "idle"
    /\ \/ /\ payload \in StructuredPayloads
          /\ input = RenderPayload(payload)
       \/ /\ payload = PlainPayload
          /\ input \in PlainTexts
    /\ outputSize \in OutputSizes
    /\ output = Junk(outputSize)
    /\ outside = {}
    /\ path = "none"
    /\ rendered = {}
    /\ refused = 0
    /\ IdleOther

\* What an earlier use left in the handler: a word, or as much as it holds.
EarlierTexts == { <<111, 108, 100>>, Rep(111, MAX_MESSAGE_LENGTH - 2) }

\* The handler is global: it holds what an earlier use left in it.
EarlierUse ==
    /\ pc = "idle"
    /\ nOps = 0
    /\ \E str \in EarlierTexts :
       \E r \in {appendStr(globalStringHandler, str)} :
        /\ buffer' = r.h.buffer
        /\ bufferPos' = r.h.bufferPos
        /\ content' = IF r.ret THEN content \o str ELSE content
        /\ last' = [op |-> "appendStr", arg |-> str, ret |-> r.ret,
                    pre |-> globalStringHandler]
    /\ nOps' = nOps + 1
    /\ UNCHANGED <<procVars, otherVars>>

\* A write outside the caller's array is undefined behaviour: the call either
\* corrupts what lies behind the array and returns, or the unit faults.
ProcessMessage ==
    /\ pc = "idle"
    /\ \E r \in {optimizedProcessMessage(globalStringHandler, input, output, outputSize)} :
        /\ buffer' = r.h.buffer
        /\ bufferPos' = r.h.bufferPos
        /\ content' = [k \in 1..r.h.bufferPos |-> r.h.buffer[k - 1]]
        /\ output' = r.output
        /\ outside' = r.outside
        /\ path' = r.path
        /\ rendered' = r.rendered
        /\ refused' = r.refused
        /\ pc' \in IF r.outside = {} THEN {"done"} ELSE {"done", "fault"}
    /\ last' = [op |-> "process", arg |-> input, ret |-> TRUE,
                pre |-> globalStringHandler]
    /\ nOps' = nOps + 1
    /\ UNCHANGED <<input, outputSize, payload, otherVars>>

NextProcess == EarlierUse \/ ProcessMessage

SpecProcess == InitProcess /\ [][NextProcess]_vars


(***************************************************************************)
(* What a payload says, read from the fields it was written from and not   *)
(* from the code's search of the text.                                     *)
(***************************************************************************)
HasField(p, k) == \E n \in 1..Len(p.items) : p.items[n].key = k

ItemOf(p, k) == CHOOSE n \in 1..Len(p.items) : p.items[n].key = k

ValueOf(p, k) == p.items[ItemOf(p, k)].value

\* The value's closing quote arrived.
Terminated(p, k) == p.closed \/ ItemOf(p, k) < Len(p.items)

FieldKeys == <<"student_name", "course_code", "request_message">>

Line(p, i) == labels[i] \o ValueOf(p, FieldKeys[i]) \o <<10>>

\* The lines of the fields in S, in the order of fields[].
Lines(p, S) ==
    (IF 1 \in S THEN Line(p, 1) ELSE <<>>) \o
    (IF 2 \in S THEN Line(p, 2) ELSE <<>>) \o
    (IF 3 \in S THEN Line(p, 3) ELSE <<>>)

PresentFields(p) == {i \in 1..3 : HasField(p, FieldKeys[i])}

\* Field i is there with its closing quote and a non-empty value, and with L
\* bytes already accumulated its length passes the code's margin of 20.
Qualifies(p, i, L) ==
    /\ HasField(p, FieldKeys[i])
    /\ Terminated(p, FieldKeys[i])
    /\ Len(ValueOf(p, FieldKeys[i])) > 0
    /\ L + Len(ValueOf(p, FieldKeys[i])) + 20 < MAX_MESSAGE_LENGTH

QualifyingFields(p) ==
    LET S1 == IF Qualifies(p, 1, 0) THEN {1} ELSE {}
        S2 == IF Qualifies(p, 2, Len(Lines(p, S1))) THEN S1 \cup {2} ELSE S1
    IN  IF Qualifies(p, 3, Len(Lines(p, S2))) THEN S2 \cup {3} ELSE S2

Processed == pc \in {"done", "fault"}

Structured == payload.kind = "structured"

(***************************************************************************)
(* Properties of optimizedProcessMessage, checked under SpecProcess.       *)
(***************************************************************************)
\* C1: for every input and every output_capacity >= 1 the call writes only to
\* output[0 .. output_capacity-1] and leaves a terminator inside those bounds,
\* on the "message" path, the labeled-field path and the plain-text path.
OutputWithinBounds ==
    Processed =>
        /\ outside = {}
        /\ pc = "done"
        /\ \E i \in 0..outputSize-1 : output[i] = 0

\* C7: a structured payload with a "message" field whose value passes the
\* length test (and which the output array can hold) yields exactly that
\* value, whatever the other fields and wherever the field stands.
MessageVerbatim ==
    (/\ Processed
     /\ Structured
     /\ HasField(payload, "message")
     /\ Terminated(payload, "message")
     /\ Len(ValueOf(payload, "message")) < MAX_MESSAGE_LENGTH - 1
     /\ Len(ValueOf(payload, "message")) < outputSize)
        => /\ pc = "done"
           /\ path = "message"
           /\ outside = {}
           /\ CString(output) = ValueOf(payload, "message")

\* The short-circuit answered for a payload whose non-empty "message" field
\* comes after two other recognized fields.
MessageAmongOtherFields ==
    /\ pc = "done"
    /\ path = "message"
    /\ Len(payload.items) >= 4
    /\ payload.items[1].key # "message"
    /\ HasField(payload, "student_name")
    /\ HasField(payload, "request_message")
    /\ Len(ValueOf(payload, "message")) = MAX_MESSAGE_LENGTH - 2
    /\ CString(output) = ValueOf(payload, "message")

\* C8 as claimed: without a "message" field the output is the line of every
\* recognized field present, in the order of fields[] (read for complete
\* payloads and an output array that can hold those lines).
LabeledLinesOfPresentFields ==
    (/\ Processed
     /\ Structured
     /\ payload.closed
     /\ ~HasField(payload, "message")
     /\ Len(Lines(payload, PresentFields(payload))) < outputSize)
        => CString(output) = Lines(payload, PresentFields(payload))

\* C8 as amended: without a "message" field the output is the first
\* min(len, output_capacity - 1) bytes of the lines, in the order of fields[],
\* of the fields that are present with a closing quote and a non-empty value
\* and pass length + len(value) + 20 < MAX_MESSAGE_LENGTH at their turn; it
\* is empty when there is no such field.
LabeledLinesOfQualifyingFields ==
    (Processed /\ Structured /\ ~HasField(payload, "message"))
        => /\ pc = "done"
           /\ path = "fields"
           /\ outside = {}
           /\ CString(output) =
                  Take(Lines(payload, QualifyingFields(payload)), outputSize - 1)

\* Scenario B with the fields written in the opposite order, and room for
\* both lines.
BothLinesInFixedOrder ==
    /\ pc = "done"
    /\ path = "fields"
    /\ ~HasField(payload, "message")
    /\ Len(payload.items) = 3
    /\ payload.items[1].key = "id"
    /\ rendered = {1, 2}
    /\ ValueOf(payload, "student_name") = <<65, 108, 105, 99, 101>>
    /\ ValueOf(payload, "course_code") = <<67, 83, 49, 48, 49>>
    /\ CString(output) = Lines(payload, {1, 2})

\* The bytes the handler holds when field i comes up, given the fields rendered.
LengthBefore(p, i) == Len(Lines(p, {j \in rendered : j < i}))

\* C9 as claimed: on the fallback path a field is rendered exactly when it is
\* found and label + value + newline fits what is left of the handler,
\* fields with an empty value and fields that fit exactly included (read for
\* complete payloads).
RenderedWhenItFits ==
    (Processed /\ path = "fields" /\ payload.closed)
        => \A i \in 1..3 :
              i \in rendered <=>
                  /\ HasField(payload, FieldKeys[i])
                  /\ LengthBefore(payload, i) + Len(Line(payload, i))
                         <= MAX_MESSAGE_LENGTH - 1

\* C9 as amended: on the fallback path a field is rendered exactly when it is
\* found with its closing quote, its value is not empty and
\* length + len(value) + 20 < MAX_MESSAGE_LENGTH; the handler then holds the
\* lines of exactly those fields.
RenderedWhenGuardPasses ==
    (Processed /\ path = "fields")
        => /\ \A i \in 1..3 :
                 i \in rendered <=> Qualifies(payload, i, LengthBefore(payload, i))
           /\ getString(globalStringHandler) = Lines(payload, rendered)

\* A field was skipped although its line would have fitted, another one
\* because its value is empty, and the third was rendered.
SkippedThoughItFits ==
    /\ pc = "done"
    /\ path = "fields"
    /\ payload.closed
    /\ PresentFields(payload) = {1, 2, 3}
    /\ rendered = {3}
    /\ Len(ValueOf(payload, "student_name")) = MAX_MESSAGE_LENGTH - 20
    /\ Len(Line(payload, 1)) <= MAX_MESSAGE_LENGTH - 1
    /\ ValueOf(payload, "course_code") = <<>>

\* C10: a plain-text input comes out as its first
\* min(len(input), output_capacity - 1) bytes followed by the terminator.
PlainTextPassesThrough ==
    (Processed /\ payload.kind = "plain")
        => LET n == IF Len(input) < outputSize - 1 THEN Len(input)
                    ELSE outputSize - 1
           IN  /\ pc = "done"
               /\ path = "plain"
               /\ outside = {}
               /\ \A i \in 0..n-1 : output[i] = input[i + 1]
               /\ output[n] = 0
               /\ CString(output) = Take(input, outputSize - 1)

\* A plain text longer than the output array was cut.
PlainTextTruncated ==
    /\ pc = "done"
    /\ path = "plain"
    /\ outputSize > 1
    /\ Len(input) > outputSize - 1
    /\ output[outputSize - 1] = 0
    /\ output[outputSize - 2] = input[outputSize - 1]



(***************************************************************************)
(* optimizedJSONExtract (the spec's extractField).                         *)
(***************************************************************************)
\* A pointer argument: null, or the string or array it points at.
Pointer(isNull, v) == [null |-> isNull, at |-> v]

extractFailure_clears(value) ==
    [value |-> [i \in DOMAIN value |-> IF i = 0 THEN 0 ELSE value[i]],
     outside |-> {}, ret |-> FALSE]

\* return false: nothing has been written.
extractFailure(value) == [value |-> value, outside |-> {}, ret |-> FALSE]

extractLength_uncapped(len, valueSize) == len

\* size_t length = end - start; if (length >= valueSize) length = valueSize - 1;
extractLength(len, valueSize) ==
    IF len >= valueSize THEN valueSize - 1 ELSE len

\* bool optimizedJSONExtract(const char* json, const char* key, char* value,
\*                           size_t valueSize)
optimizedJSONExtract(json, k, value, valueSize) ==
    IF json.null \/ k.null \/ value.null \/ valueSize = 0
    THEN extractFailure(value.at)
    ELSE
      LET searchPattern == Take(<<34>> \o k.at \o <<34, 58, 34>>, 63)
          start0 == strstr(json.at, searchPattern)
      IN
      IF start0 = NULL THEN extractFailure(value.at)
      ELSE
        LET start == start0 + Len(searchPattern)
            end   == strchr(json.at, start, 34)
        IN
        IF end = NULL THEN extractFailure(value.at)
        ELSE
          LET len == extractLength(end - start, valueSize)
              w == Store(value.at, [i \in 0..len |->
                            IF i < len THEN json.at[start + i + 1] ELSE 0])
          IN  [value |-> w.mem, outside |-> w.outside, ret |-> TRUE]

\* The field names asked for: the recognised ones and one that is not.
ExtractKeys == {"message", "student_name", "course_code", "id"}

\* The payloads searched: up to two fields, closed or cut off.
ExtractPayloads == {p \in StructuredPayloads : Len(p.items) <= 2}

\* The capacities of the caller's value array, on both sides of the length
\* of "Alice".
ExtractSizes == {0, 1, 5, 6, MAX_MESSAGE_LENGTH}

InitExtract ==
    /\ buffer = [i \in 0..MAX_MESSAGE_LENGTH-1 |-> 0]
    /\ bufferPos = 0
    /\ content = <<>>
    /\ last = NoCall
    /\ nOps = 0
    /\ pc = "idle"
    /\ payload \in ExtractPayloads
    /\ input = RenderPayload(payload)
    /\ outputSize \in ExtractSizes
    /\ output = Junk(outputSize)
    /\ outside = {}
    /\ path = "none"
    /\ rendered = {}
    /\ refused = 0
    /\ key \in ExtractKeys
    /\ nulls \in {{}, {"json"}, {"key"}, {"value"}}
    /\ ret = FALSE
    /\ IdlePres
    /\ IdleMon

ExtractField ==
    /\ pc = "idle"
    /\ \E r \in {optimizedJSONExtract(Pointer("json" \in nulls, input),
                                      Pointer("key" \in nulls, KeyBytes[key]),
                                      Pointer("value" \in nulls, output),
                                      outputSize)} :
        /\ output' = r.value
        /\ outside' = r.outside
        /\ ret' = r.ret
        /\ pc' \in IF r.outside = {} THEN {"done"} ELSE {"done", "fault"}
    /\ UNCHANGED <<accVars, input, outputSize, path, rendered, refused, payload, key, nulls,
                   presVars, monVars>>

NextExtract == ExtractField

SpecExtract == InitExtract /\ [][NextExtract]_vars

(***************************************************************************)
(* Properties of optimizedJSONExtract, checked under SpecExtract.          *)
(***************************************************************************)
Extracted == pc \in {"done", "fault"} /\ key # "none"

ValidArguments == nulls = {} /\ outputSize > 0

\* C11: the call returns failure and leaves every byte of the caller's
\* array as it was when the field is not in the input, when its closing
\* quote is missing, when an argument is null or when the capacity is 0.
ExtractFailureLeavesOutput ==
    (/\ Extracted
     /\ \/ ~ValidArguments
        \/ ~HasField(payload, key)
        \/ ~Terminated(payload, key))
        => /\ ret = FALSE
           /\ pc = "done"
           /\ outside = {}
           /\ output = Junk(outputSize)

ExtractUnterminated ==
    /\ Extracted
    /\ ValidArguments
    /\ HasField(payload, key)
    /\ ~Terminated(payload, key)
    /\ Len(ValueOf(payload, key)) > 0
    /\ ret = FALSE

\* C12: when the field is in the input with its closing quote, the call
\* returns success, the array holds the first min(len(value), capacity - 1)
\* bytes of the value and then the terminator, the bytes behind the
\* terminator are as they were and nothing is written at or beyond capacity.
ExtractCopiesValue ==
    (/\ Extracted
     /\ ValidArguments
     /\ HasField(payload, key)
     /\ Terminated(payload, key))
        => LET v == ValueOf(payload, key)
               n == IF Len(v) < outputSize - 1 THEN Len(v) ELSE outputSize - 1
           IN  /\ ret = TRUE
               /\ pc = "done"
               /\ outside = {}
               /\ \A i \in 0..outputSize-1 :
                      output[i] = IF i < n THEN v[i + 1]
                                  ELSE IF i = n THEN 0
                                  ELSE Junk(outputSize)[i]

ExtractTruncated ==
    /\ Extracted
    /\ ValidArguments
    /\ HasField(payload, key)
    /\ Terminated(payload, key)
    /\ Len(ValueOf(payload, key)) = outputSize
    /\ outputSize > 1
    /\ ret = TRUE
    /\ CString(output) = Take(ValueOf(payload, key), outputSize - 1)



(***************************************************************************)
(* optimizedDisplayMessage: the text re-flowed into the handler.           *)
(***************************************************************************)
\* int lineWidth = 35; // Approximate characters per line
lineWidth == 35

breakBefore_late(c, currentLineLength) ==
    c = 10 \/ currentLineLength > lineWidth

\* if (c == '\n' || currentLineLength >= lineWidth)
breakBefore(c, currentLineLength) ==
    c = 10 \/ currentLineLength >= lineWidth

\* The body of while (*ptr) { ... ptr++; }, the results of append() ignored.
\* st is [h, ptr, currentLineLength], ptr the text not yet read.
wrapByte(st) ==
    LET c == Head(st.ptr) IN
    IF breakBefore(c, st.currentLineLength)
    THEN LET h1 == appendChar(st.h, 10).h IN
         IF c # 10
         THEN [h |-> appendChar(h1, c).h, ptr |-> Tail(st.ptr),
               currentLineLength |-> 1]
         ELSE [h |-> h1, ptr |-> Tail(st.ptr), currentLineLength |-> 0]
    ELSE [h |-> appendChar(st.h, c).h, ptr |-> Tail(st.ptr),
          currentLineLength |-> st.currentLineLength + 1]

\* while (*ptr)
RECURSIVE wrapLoop(_)
wrapLoop(st) ==
    IF st.ptr = <<>> THEN st.h ELSE wrapLoop(wrapByte(st))

\* void optimizedDisplayMessage(const char* message); what it prints to
\* Serial is the handler's string.
optimizedDisplayMessage(h, message) ==
    IF message.null THEN h
    ELSE wrapLoop([h |-> reset(h), ptr |-> message.at, currentLineLength |-> 0])

\* The texts displayed: a first line of a bytes, a newline or none, b more
\* bytes, a newline or none; a and b sit around the width and the capacity.
DisplayTexts ==
    { Rep(97, a) \o n1 \o Rep(98, b) \o n2 :
          a \in {0, 1, lineWidth - 1, lineWidth, lineWidth + 1, 2 * lineWidth + 1},
          b \in {0, 1, MAX_MESSAGE_LENGTH - lineWidth - 3,
                 MAX_MESSAGE_LENGTH - lineWidth - 2, MAX_MESSAGE_LENGTH - lineWidth - 1},
          n1 \in {<<>>, <<10>>}, n2 \in {<<>>, <<10>>} }

InitDisplay ==
    /\ buffer = [i \in 0..MAX_MESSAGE_LENGTH-1 |-> 0]
    /\ bufferPos = 0
    /\ content = <<>>
    /\ last = NoCall
    /\ nOps = 0
    /\ pc = "idle"
    /\ input \in DisplayTexts
    /\ nulls \in {{}, {"message"}}
    /\ outputSize = 0
    /\ output = <<>>
    /\ outside = {}
    /\ path = "none"
    /\ rendered = {}
    /\ refused = 0
    /\ payload = PlainPayload
    /\ key = "none"
    /\ ret = FALSE
    /\ IdlePres
    /\ IdleMon

DisplayMessage ==
    /\ pc = "idle"
    /\ \E h \in {optimizedDisplayMessage(globalStringHandler,
                                         Pointer("message" \in nulls, input))} :
        /\ buffer' = h.buffer
        /\ bufferPos' = h.bufferPos
        /\ content' = [k \in 1..h.bufferPos |-> h.buffer[k - 1]]
    /\ pc' = "done"
    /\ path' = "display"
    /\ last' = [op |-> "display", arg |-> input, ret |-> TRUE,
                pre |-> globalStringHandler]
    /\ nOps' = nOps + 1
    /\ UNCHANGED <<input, outputSize, output, outside, rendered, refused, payload,
                   otherVars>>

NextDisplay == EarlierUse \/ DisplayMessage

SpecDisplay == InitDisplay /\ [][NextDisplay]_vars

(***************************************************************************)
(* The re-flow read from the text: its source lines, each cut into pieces  *)
(* of the width, the pieces joined by line breaks.                         *)
(***************************************************************************)
\* The bytes of text before its first newline.
FirstLine(text) ==
    IF \E i \in 1..Len(text) : text[i] = 10
    THEN SubSeq(text, 1, (CHOOSE i \in 1..Len(text) :
                             text[i] = 10 /\ \A j \in 1..i-1 : text[j] # 10) - 1)
    ELSE text

RECURSIVE Pieces(_)
Pieces(line) ==
    IF Len(line) <= lineWidth THEN line
    ELSE SubSeq(line, 1, lineWidth) \o <<10>>
         \o Pieces(SubSeq(line, lineWidth + 1, Len(line)))

RECURSIVE Reflow(_)
Reflow(text) ==
    LET line == FirstLine(text) IN
    IF Len(line) = Len(text) THEN Pieces(line)
    ELSE Pieces(line) \o <<10>> \o Reflow(SubSeq(text, Len(line) + 2, Len(text)))

\* shown without its inserted breaks is the start of text: a break of shown
\* that text does not have at that place is an inserted one.
RECURSIVE StartsWithUnwrapped(_, _)
StartsWithUnwrapped(text, shown) ==
    IF shown = <<>> THEN TRUE
    ELSE IF text # <<>> /\ Head(text) = Head(shown)
         THEN StartsWithUnwrapped(Tail(text), Tail(shown))
         ELSE Head(shown) = 10 /\ StartsWithUnwrapped(text, Tail(shown))

\* No line of shown is longer than the width.
LinesWithinWidth(shown) ==
    \A i \in 1..Len(shown) - lineWidth :
        \E k \in i..i + lineWidth : shown[k] = 10

Displayed == path = "display" /\ nulls = {}

\* C13: the handler holds the re-flowed text, a break wherever the text has a
\* newline or the line has reached the width and nowhere else (one break
\* for a newline that arrives at the width), cut short at capacity - 1
\* bytes; no line of it is longer than the width, and without the inserted
\* breaks it is the start of the text.
DisplayWrapsAtWidth ==
    Displayed =>
        /\ content = Take(Reflow(input), MAX_MESSAGE_LENGTH - 1)
        /\ getString(globalStringHandler) = content
        /\ Len(content) <= MAX_MESSAGE_LENGTH - 1
        /\ LinesWithinWidth(content)
        /\ StartsWithUnwrapped(input, content)

\* A newline that arrives when the line is full, followed by more text, in a
\* text the handler cannot hold whole.
DisplayNewlineAtWidthCutShort ==
    /\ Displayed
    /\ Len(input) > lineWidth + 1
    /\ SubSeq(input, 1, lineWidth + 2) = Rep(97, lineWidth) \o <<10, 98>>
    /\ Len(Reflow(input)) > MAX_MESSAGE_LENGTH - 1
    /\ Len(content) = MAX_MESSAGE_LENGTH - 1
    /\ content[lineWidth + 1] = 10
    /\ content[lineWidth + 2] = 98



(***************************************************************************)
(* The proximity debounce state machine.  Its code is not among the        *)
(* sources, which hold only its configuration (config.h); the transition   *)
(* rule is the one of the specification, section 4.4.                      *)
(***************************************************************************)
\* #define BLE_RSSI_THRESHOLD -75
BLE_RSSI_THRESHOLD == 0 - 75

\* #define BLE_SCAN_INTERVAL 5000
BLE_SCAN_INTERVAL == 5000

\* #define MAC_DETECTION_TIMEOUT 30000
MAC_DETECTION_TIMEOUT == 30000

\* The steps of the state machine a behaviour takes.
MaxSteps == 6

\* identity_match false or signal_strength weaker than the threshold:
\* "not-detected"; otherwise "detected".
classify(obs) ==
    IF ~obs.identity_match \/ obs.signal_strength < BLE_RSSI_THRESHOLD
    THEN "not-detected"
    ELSE "detected"

\* The stable state a classification speaks for.
StateFor(cls) == IF cls = "detected" THEN "PRESENT" ELSE "ABSENT"

silenceTimeout_unlessStreak(p, t) ==
    IF t - p.last_observation_time > MAC_DETECTION_TIMEOUT /\ p.consecutive_count > 0
    THEN [p EXCEPT !.current = "ABSENT"]
    ELSE p

\* The elapsed time since last_observation_time exceeds the silence timeout:
\* current is forced to ABSENT, the count is bypassed.
silenceTimeout(p, t) ==
    IF t - p.last_observation_time > MAC_DETECTION_TIMEOUT
    THEN [p EXCEPT !.current = "ABSENT"]
    ELSE p

restartStreak_keepsCount(p, cls) == [p EXCEPT !.streak = cls]

\* A classification inconsistent with the running streak: the count is reset
\* to 1 and the streak restarts with the new classification.
restartStreak(p, cls) ==
    [p EXCEPT !.streak = cls, !.consecutive_count = 1]

reaches_oneEarly(count, threshold) == count >= threshold - 1

\* consecutive_count reaches the configured debounce threshold.
reaches(count, threshold) == count = threshold

\* The transition rule for one observation classified cls at time t.
observe(p, threshold, cls, t) ==
    LET counted ==
            IF cls # p.streak THEN restartStreak(p, cls)
            ELSE IF StateFor(cls) # p.current
                 THEN [p EXCEPT !.consecutive_count = @ + 1]
                 ELSE p
        flipped ==
            IF /\ reaches(counted.consecutive_count, threshold)
               /\ StateFor(counted.streak) # counted.current
            THEN [counted EXCEPT !.current = StateFor(counted.streak),
                                 !.consecutive_count = 0]
            ELSE counted
    IN  [flipped EXCEPT !.last_observation_time = t]

emit_always(evs, before, p, t) ==
    Append(evs, [new_state |-> p.current, timestamp |-> t])

\* The state-change event {new_state, timestamp}, emitted if p differs from before.
emit(evs, before, p, t) ==
    IF p.current # before.current
    THEN Append(evs, [new_state |-> p.current, timestamp |-> t])
    ELSE evs

\* The observations the radio delivers: the beacon at the threshold, the
\* beacon weaker than the threshold, another device.
Observations ==
    { [identity_match |-> TRUE,  signal_strength |-> BLE_RSSI_THRESHOLD],
      [identity_match |-> TRUE,  signal_strength |-> BLE_RSSI_THRESHOLD - 1],
      [identity_match |-> FALSE, signal_strength |-> BLE_RSSI_THRESHOLD + 15] }

\* The time between two steps: a scan interval, or a silence just within and
\* just beyond the timeout.
Silences == {MAC_DETECTION_TIMEOUT, MAC_DETECTION_TIMEOUT + 1}

InitPresence ==
    /\ buffer = [i \in 0..MAX_MESSAGE_LENGTH-1 |-> 0]
    /\ bufferPos = 0
    /\ content = <<>>
    /\ last = NoCall
    /\ nOps = 0
    /\ IdleProc
    /\ IdleExt
    /\ presence = InitialPresence
    /\ debounce \in {MAC_DETECTION_DEBOUNCE, MAC_DETECTION_DEBOUNCE + 1}
    /\ now = 0
    /\ events = <<>>
    /\ seen = <<>>
    /\ trace = <<>>
    /\ IdleMon

\* One step of the control loop at time t with observation obs: the silence
\* test, then the transition rule.
ObserveAt(t, obs) ==
    \E p1 \in {silenceTimeout(presence, t)} :
    \E p2 \in {observe(p1, debounce, classify(obs), t)} :
    \E evs \in {emit(emit(events, presence, p1, t), p1, p2, t)} :
        /\ presence' = p2
        /\ now' = t
        /\ events' = evs
        /\ seen' = Append(seen, classify(obs))
        /\ trace' = Append(trace,
               [observed |-> TRUE, cls |-> classify(obs),
                elapsed |-> t - presence.last_observation_time,
                before |-> presence, silenced |-> p1, after |-> p2,
                nSeen |-> Len(seen) + 1,
                emitted |-> SubSeq(evs, Len(events) + 1, Len(evs))])

\* An observation arrives a scan interval after the last step.
Observe ==
    /\ Len(trace) < MaxSteps
    /\ \E obs \in Observations : ObserveAt(now + BLE_SCAN_INTERVAL, obs)
    /\ UNCHANGED <<accVars, procVars, extVars, monVars, debounce>>

\* The beacon is observed again after a silence.
ObserveAfterSilence ==
    /\ Len(trace) < MaxSteps
    /\ ObserveAt(now + MAC_DETECTION_TIMEOUT + 1,
                 [identity_match |-> TRUE, signal_strength |-> BLE_RSSI_THRESHOLD])
    /\ UNCHANGED <<accVars, procVars, extVars, monVars, debounce>>

\* A step of the control loop with no observation.
Silence ==
    /\ Len(trace) < MaxSteps
    /\ \E dt \in Silences :
       \E p1 \in {silenceTimeout(presence, now + dt)} :
       \E evs \in {emit(events, presence, p1, now + dt)} :
        /\ presence' = p1
        /\ now' = now + dt
        /\ events' = evs
        /\ trace' = Append(trace,
               [observed |-> FALSE, cls |-> "none",
                elapsed |-> now + dt - presence.last_observation_time,
                before |-> presence, silenced |-> p1, after |-> p1,
                nSeen |-> Len(seen),
                emitted |-> SubSeq(evs, Len(events) + 1, Len(evs))])
    /\ UNCHANGED <<accVars, procVars, extVars, monVars, debounce, seen>>

NextPresence == Observe \/ ObserveAfterSilence \/ Silence

SpecPresence == InitPresence /\ [][NextPresence]_vars



(***************************************************************************)
(* Properties of the debounce state machine, checked under SpecPresence.   *)
(***************************************************************************)
\* Step k was an observation classified cls, taken without a silence timeout.
SampleAt(k, cls) ==
    /\ trace[k].observed
    /\ trace[k].cls = cls
    /\ trace[k].elapsed <= MAC_DETECTION_TIMEOUT

\* The classification of the last observation before step k, "none" if
\* there is none.
ClsBefore(k) ==
    IF trace[k].observed
    THEN IF trace[k].nSeen = 1 THEN "none" ELSE seen[trace[k].nSeen - 1]
    ELSE IF trace[k].nSeen = 0 THEN "none" ELSE seen[trace[k].nSeen]

\* The events emitted in steps first .. j.
RECURSIVE EmittedIn(_, _)
EmittedIn(first, j) ==
    IF j < first THEN <<>> ELSE EmittedIn(first, j - 1) \o trace[j].emitted

\* C14: from ABSENT with no detected streak under way (initially, or after a
\* not-detected sample), a run of N = debounce detected observations with no
\* silence timeout leaves the state ABSENT until the Nth, makes it PRESENT on
\* the Nth, and emits one event for the whole run.
DebounceFlipsOnNth ==
    \A j \in debounce..Len(trace) :
        LET first == j - debounce + 1 IN
        (/\ \A k \in first..j : SampleAt(k, "detected")
         /\ trace[first].before.current = "ABSENT"
         /\ ClsBefore(first) # "detected")
            => /\ \A k \in first..j-1 : trace[k].after.current = "ABSENT"
               /\ trace[j].after.current = "PRESENT"
               /\ Len(EmittedIn(first, j)) = 1
               /\ trace[j].emitted = <<[new_state |-> "PRESENT",
                                        timestamp |-> trace[j].after.last_observation_time]>>

DebounceRunFromInitial ==
    /\ debounce = MAC_DETECTION_DEBOUNCE
    /\ Len(trace) = debounce
    /\ \A k \in 1..debounce : SampleAt(k, "detected")
    /\ presence.current = "PRESENT"
    /\ Len(events) = 1

\* The observation of step j changed the state.
FlippedBySample(j) ==
    /\ trace[j].observed
    /\ trace[j].after.current # trace[j].silenced.current

\* C15: an observation whose classification contradicts the running streak
\* leaves consecutive_count at 1 with the new classification, and an
\* observation flips the state only as the last of N = debounce consecutive
\* observations of its classification, the one opposite to the state.
StreakResetByContrarySample ==
    \A j \in 1..Len(trace) :
        /\ (trace[j].observed /\ ClsBefore(j) # trace[j].cls)
               => /\ trace[j].after.consecutive_count = 1
                  /\ trace[j].after.streak = trace[j].cls
                  /\ ~FlippedBySample(j)
        /\ FlippedBySample(j)
               => /\ trace[j].after.current = StateFor(trace[j].cls)
                  /\ trace[j].nSeen >= debounce
                  /\ \A k \in trace[j].nSeen - debounce + 1 .. trace[j].nSeen :
                         seen[k] = trace[j].cls

\* Scenario C: threshold 3, detected, detected, not-detected, detected stay
\* ABSENT and the sixth observation, the third detected in a row, flips.
ScenarioC ==
    /\ debounce = 3
    /\ seen = <<"detected", "detected", "not-detected", "detected", "detected",
                "detected">>
    /\ Len(trace) = 6
    /\ \A k \in 1..6 : trace[k].observed /\ trace[k].elapsed <= MAC_DETECTION_TIMEOUT
    /\ trace[3].after.consecutive_count = 1
    /\ \A k \in 1..5 : trace[k].after.current = "ABSENT"
    /\ presence.current = "PRESENT"
    /\ Len(events) = 1

\* C16: in a step taken more than MAC_DETECTION_TIMEOUT after the last
\* observation while the state is PRESENT, the state is made ABSENT at once
\* and the event is emitted, whatever the count and the streak, which are
\* left as they were; with no observation in the step the state stays ABSENT.
SilenceForcesAbsent ==
    \A j \in 1..Len(trace) :
        (/\ trace[j].elapsed > MAC_DETECTION_TIMEOUT
         /\ trace[j].before.current = "PRESENT")
            => /\ trace[j].silenced = [trace[j].before EXCEPT !.current = "ABSENT"]
               /\ Len(trace[j].emitted) >= 1
               /\ trace[j].emitted[1].new_state = "ABSENT"
               /\ ~trace[j].observed =>
                      /\ trace[j].after.current = "ABSENT"
                      /\ Len(trace[j].emitted) = 1

\* PRESENT, never a not-detected sample, then silence.
SilenceWithoutContrarySample ==
    /\ Len(trace) > 0
    /\ \A k \in 1..Len(seen) : seen[k] = "detected"
    /\ ~trace[Len(trace)].observed
    /\ trace[Len(trace)].before.current = "PRESENT"
    /\ trace[Len(trace)].elapsed > MAC_DETECTION_TIMEOUT
    /\ presence.current = "ABSENT"



(***************************************************************************)
(* MemoryMonitor.  Times are unsigned longs of 32 bits and their sums and  *)
(* differences are taken modulo 2^32.                                      *)
(***************************************************************************)
\* a + n for 0 <= n < 2^31
Add32(a, n) ==
    LET lo == a.lo + n IN
    U32((a.hi + lo \div Half) % Half, lo % Half)

\* a - b
Sub32(a, b) ==
    LET borrow == IF a.lo < b.lo THEN 1 ELSE 0 IN
    U32((a.hi - b.hi - borrow + Half) % Half, (a.lo - b.lo + Half) % Half)

\* a > n for 0 <= n < 2^16
Gt32(a, n) == a.hi > 0 \/ a.lo > n

\* millis() when the clock reads t
millis(t) == Add32(bootMillis, t)

logDue_atInterval(millisNow, last32) ==
    Gt32(Sub32(millisNow, last32), 29999)

\* millis() - lastCheck > 30000
logDue(millisNow, last32) ==
    Gt32(Sub32(millisNow, last32), 30000)

lowWater_lastReading(currentFree, min) == currentFree

\* if (currentFree < minFreeHeap) minFreeHeap = currentFree;
lowWater(currentFree, min) ==
    IF currentFree < min THEN currentFree ELSE min

\* void MemoryMonitor::forceGarbageCollection(): malloc(1024) and free, a
\* reading, delay(10), a reading and a print; the readings are only printed.
\* Called at time t, it waits in delay(10) until the time given and returns.
forceGarbageCollection(t) == t + 10

\* void MemoryMonitor::init() at time t with ESP.getFreeHeap() = free.
\* m is [lastCheck, minFreeHeap].
monitorInit(m, t, free) == [lastCheck |-> millis(t), minFreeHeap |-> free]

\* void MemoryMonitor::checkMemory() at time t with ESP.getFreeHeap() =
\* currentFree; printing the record takes d ms.  gc = 1 says that the call
\* has reached forceGarbageCollection (line 166), at time t + d; otherwise the
\* call has returned.
checkMemory(m, t, currentFree, d) ==
    LET min == lowWater(currentFree, m.minFreeHeap) IN
    IF logDue(millis(t), m.lastCheck)
    THEN [m      |-> [lastCheck |-> millis(t + d), minFreeHeap |-> min],
          logged |-> TRUE,
          warned |-> currentFree < 10000,
          gc     |-> IF currentFree < 5000 THEN 1 ELSE 0,
          t      |-> t + d]
    ELSE [m      |-> [lastCheck |-> m.lastCheck, minFreeHeap |-> min],
          logged |-> FALSE,
          warned |-> FALSE,
          gc     |-> 0,
          t      |-> t]

MemoryMonitor == [lastCheck |-> lastCheck, minFreeHeap |-> minFreeHeap]

\* What ESP.getFreeHeap() reads: on both sides of 5000 and of 10000.
HeapReadings == {4999, 5000, 10000}

\* The time between two calls: short, the log interval, just beyond it.
Pauses == {1000, 30000, 30001}

\* The time printing a record takes.
PrintTimes == {0, 3}

\* millis() at the start: 0, or 40 s before it wraps around.
BootValues == {U32(0, 0), Sub32(U32(0, 0), U32(0, 40000))}

\* The samples taken in a behaviour.
MaxSamples == 3

InitMonitor ==
    /\ buffer = [i \in 0..MAX_MESSAGE_LENGTH-1 |-> 0]
    /\ bufferPos = 0
    /\ content = <<>>
    /\ last = NoCall
    /\ nOps = 0
    /\ IdleProc
    /\ IdleExt
    /\ IdlePres
    /\ lastCheck = U32(0, 0)
    /\ minFreeHeap = 0
    /\ bootMillis \in BootValues
    /\ clock = 0
    /\ mon = [initialised |-> FALSE, samples |-> {}, records |-> <<>>, logged |-> 0,
              n |-> 0]
    /\ sample = NoSample
    /\ alloc = NoAlloc
    /\ wait = NoWait

\* setup() calls MemoryMonitor::init() once.
MonitorInit ==
    /\ ~mon.initialised
    /\ \E free \in HeapReadings :
       \E m \in {monitorInit(MemoryMonitor, clock, free)} :
        /\ lastCheck' = m.lastCheck
        /\ minFreeHeap' = m.minFreeHeap
        /\ mon' = [initialised |-> TRUE, samples |-> {free}, records |-> <<>>,
                   logged |-> clock, n |-> 0]
    /\ UNCHANGED <<accVars, procVars, extVars, presVars, bootMillis, clock, sample, alloc,
                   wait>>

\* The history of one run of checkMemory at time t: the reading, the time
\* lastCheck was last set, the time of the record if one is printed.
Sampled(r, t, currentFree, d) ==
    /\ lastCheck' = r.m.lastCheck
    /\ minFreeHeap' = r.m.minFreeHeap
    /\ clock' = r.t
    /\ sample' = [currentFree |-> currentFree, at |-> t, since |-> mon.logged,
                  logged |-> r.logged, warned |-> r.warned, gc |-> r.gc,
                  pre |-> minFreeHeap]
    /\ mon' = [mon EXCEPT !.samples = @ \cup {currentFree},
                          !.records = IF r.logged THEN Append(@, t) ELSE @,
                          !.logged = IF r.logged THEN t + d ELSE @,
                          !.n = @ + 1]

\* checkMemory has called forceGarbageCollection (line 166), which waits in
\* delay(10), or it has returned.
WaitsIf(c) ==
    wait' = IF c.gc = 1
            THEN [NoWait EXCEPT !.in = "checkMemory",
                                !.until = forceGarbageCollection(c.t)]
            ELSE NoWait

\* The control loop samples the heap: the call up to its return, or up to
\* the wait in forceGarbageCollection.
CheckMemory ==
    /\ mon.initialised
    /\ wait = NoWait
    /\ mon.n < MaxSamples
    /\ \E dt \in Pauses, currentFree \in HeapReadings, d \in PrintTimes :
       \E r \in {checkMemory(MemoryMonitor, clock + dt, currentFree, d)} :
        /\ Sampled(r, clock + dt, currentFree, d)
        /\ WaitsIf(r)
    /\ UNCHANGED <<accVars, procVars, extVars, presVars, bootMillis, alloc>>

\* delay(10) ends in the forceGarbageCollection that checkMemory called: the
\* heap is read and printed (lines 189-192) and the calls return.
CollectionReturns ==
    /\ wait.in = "checkMemory"
    /\ clock' = wait.until
    /\ wait' = NoWait
    /\ UNCHANGED <<accVars, procVars, extVars, presVars, lastCheck, minFreeHeap,
                   bootMillis, mon, sample, alloc>>

NextMonitor == MonitorInit \/ CheckMemory \/ CollectionReturns

SpecMonitor == InitMonitor /\ [][NextMonitor]_vars



(***************************************************************************)
(* Properties of MemoryMonitor, checked under SpecMonitor.                 *)
(***************************************************************************)
HasSampled == mon.initialised /\ mon.n > 0

\* C17: after init(), minFreeHeap is the least of the reading taken by
\* init() and the readings sampled since; a sample leaves it at the lesser
\* of what it was and the reading, so it never increases.
MinFreeHeapIsLowWater ==
    mon.initialised =>
        /\ minFreeHeap \in mon.samples
        /\ \A x \in mon.samples : minFreeHeap <= x
        /\ HasSampled =>
               /\ minFreeHeap <= sample.pre
               /\ minFreeHeap \in {sample.pre, sample.currentFree}
               /\ minFreeHeap <= sample.currentFree

LowWaterKeptAfterHigherReading ==
    /\ HasSampled
    /\ Cardinality(mon.samples) = 3
    /\ sample.currentFree > minFreeHeap
    /\ sample.pre = minFreeHeap

\* C18: every sample that reads less than 5000 bytes free calls
\* forceGarbageCollection in that sample, however long ago the last record
\* was printed.
CriticalSampleReclaims ==
    (HasSampled /\ sample.currentFree < 5000) => sample.gc >= 1

\* C20: a record is printed only by a sample taken more than 30000 ms after
\* lastCheck was last set (by init() or by the last record), so two
\* consecutive records are more than 30000 ms apart, also when millis()
\* wraps around between them.
RecordsMoreThanIntervalApart ==
    /\ (HasSampled /\ sample.logged) => sample.at - sample.since > 30000
    /\ \A i \in 1..Len(mon.records) - 1 :
           mon.records[i + 1] - mon.records[i] > 30000

\* Two records, millis() wrapping around between them.
RecordsAcrossWrapAround ==
    /\ Len(mon.records) = 2
    /\ millis(mon.records[1]).hi = Half - 1
    /\ millis(mon.records[2]).hi = 0
    /\ lastCheck.hi = 0



(***************************************************************************)
(* optimizedMalloc and optimizedFree.                                      *)
(***************************************************************************)
stillInsufficient_never(free, size) == FALSE

\* if (ESP.getFreeHeap() < size + 500)
stillInsufficient(free, size) == free < size + 500

NoCheck == [m |-> MemoryMonitor, logged |-> FALSE, warned |-> FALSE, gc |-> 0, t |-> 0]

\* if (ESP.getFreeHeap() < size + 1000)
lowForAllocation(free, size) == free < size + 1000

\* void* optimizedMalloc(size_t size) from the point, at time t, where the
\* first reading (free, line 263) was not low or the forceGarbageCollection of
\* line 265 has returned.  recheck is the reading of line 267, ok says whether
\* malloc returns a block, currentFree and d are the reading and the print
\* time of the checkMemory that follows a successful malloc; check.gc = 1
\* says that this checkMemory has reached forceGarbageCollection.
optimizedMalloc(m, t, size, free, recheck, ok, currentFree, d) ==
    LET low == lowForAllocation(free, size)
        t1  == t
        gc1 == IF low THEN 1 ELSE 0
    IN
    IF low /\ stillInsufficient(recheck, size)
    THEN [ptr |-> "nullptr", malloc |-> FALSE, gcBefore |-> gc1, gc |-> gc1,
          sampled |-> FALSE, at |-> t1, check |-> [NoCheck EXCEPT !.t = t1]]
    ELSE IF ok
         THEN LET c == checkMemory(m, t1, currentFree, d) IN
              [ptr |-> "block", malloc |-> TRUE, gcBefore |-> gc1, gc |-> gc1 + c.gc,
               sampled |-> TRUE, at |-> t1, check |-> c]
         ELSE [ptr |-> "nullptr", malloc |-> TRUE, gcBefore |-> gc1, gc |-> gc1,
               sampled |-> FALSE, at |-> t1, check |-> [NoCheck EXCEPT !.t = t1]]

\* The sizes asked for.
AllocSizes == {200}

\* What ESP.getFreeHeap() reads in optimizedMalloc: on both sides of
\* size + 500 and of size + 1000.
AllocReadings == {699, 700, 1199, 1200}

\* The calls of optimizedMalloc and optimizedFree in a behaviour.
MaxAllocs == 1

\* The history of a call that ran checkMemory, or did not.
SampledIf(sampled, c, t, currentFree, d) ==
    IF sampled
    THEN Sampled(c, t, currentFree, d)
    ELSE /\ clock' = c.t
         /\ UNCHANGED <<lastCheck, minFreeHeap, mon, sample>>

\* Lines 267-277 at time t: the re-check after a reclamation, malloc, and the
\* checkMemory that follows a block, up to its return or up to its wait in
\* forceGarbageCollection.
Allocates(t, size, free) ==
    \E recheck \in AllocReadings, ok \in BOOLEAN,
       currentFree \in HeapReadings, d \in PrintTimes :
    \E r \in {optimizedMalloc(MemoryMonitor, t, size, free, recheck, ok,
                               currentFree, d)} :
        /\ alloc' = [size |-> size, free |-> free,
                     recheck |-> IF lowForAllocation(free, size) THEN recheck
                                 ELSE free,
                     low |-> lowForAllocation(free, size),
                     ptr |-> r.ptr, malloc |-> r.malloc,
                     gcBefore |-> r.gcBefore, gc |-> r.gc, sampled |-> r.sampled,
                     logged |-> r.check.logged,
                     currentFree |-> IF r.sampled THEN currentFree ELSE 0]
        /\ SampledIf(r.sampled, r.check, r.at, currentFree, d)
        /\ WaitsIf(r.check)

\* optimizedMalloc is called: with a low first reading it calls
\* forceGarbageCollection (line 265) and waits in delay(10); otherwise it goes
\* on to malloc.
OptimizedMalloc ==
    /\ mon.initialised
    /\ wait = NoWait
    /\ nOps < MaxAllocs
    /\ \E dt \in Pauses, size \in AllocSizes, free \in AllocReadings :
        IF lowForAllocation(free, size)
        THEN /\ clock' = clock + dt
             /\ wait' = [in |-> "optimizedMalloc",
                         until |-> forceGarbageCollection(clock + dt),
                         size |-> size, free |-> free]
             /\ alloc' = [NoAlloc EXCEPT !.size = size, !.free = free,
                                         !.low = TRUE, !.gcBefore = 1, !.gc = 1]
             /\ UNCHANGED <<lastCheck, minFreeHeap, mon, sample>>
        ELSE Allocates(clock + dt, size, free)
    /\ nOps' = nOps + 1
    /\ UNCHANGED <<buffer, bufferPos, content, last, procVars, extVars, presVars,
                   bootMillis>>

\* delay(10) ends in the forceGarbageCollection that optimizedMalloc called:
\* the heap is read and printed (lines 189-192) and optimizedMalloc goes on
\* with the re-check of line 267.
OptimizedMallocResumes ==
    /\ wait.in = "optimizedMalloc"
    /\ Allocates(wait.until, wait.size, wait.free)
    /\ UNCHANGED <<accVars, procVars, extVars, presVars, bootMillis>>

\* void optimizedFree(void* ptr): if (ptr) { free(ptr); checkMemory(); }
\* check.gc = 1 says that checkMemory has reached forceGarbageCollection.
optimizedFree(m, t, ptr, currentFree, d) ==
    IF ptr # "nullptr"
    THEN [sampled |-> TRUE, check |-> checkMemory(m, t, currentFree, d)]
    ELSE [sampled |-> FALSE, check |-> [NoCheck EXCEPT !.t = t]]

\* optimizedFree is called: up to its return, or up to the wait of its
\* checkMemory in forceGarbageCollection.
OptimizedFree ==
    /\ mon.initialised
    /\ wait = NoWait
    /\ nOps < MaxAllocs
    /\ \E dt \in Pauses, ptr \in {"nullptr", "block"},
          currentFree \in HeapReadings, d \in PrintTimes :
       \E r \in {optimizedFree(MemoryMonitor, clock + dt, ptr, currentFree, d)} :
        /\ SampledIf(r.sampled, r.check, clock + dt, currentFree, d)
        /\ WaitsIf(r.check)
    /\ nOps' = nOps + 1
    /\ UNCHANGED <<buffer, bufferPos, content, last, procVars, extVars, presVars,
                   bootMillis, alloc>>

NextMalloc ==
    \/ MonitorInit
    \/ OptimizedMalloc
    \/ OptimizedMallocResumes
    \/ OptimizedFree
    \/ CollectionReturns

SpecMalloc == InitMonitor /\ [][NextMalloc]_vars

(***************************************************************************)
(* Properties of optimizedMalloc, checked under SpecMalloc.                *)
(***************************************************************************)
Allocated == alloc.ptr # "none"

\* The reading after the reclamation attempt is still below size + 500.
GivesUp == alloc.low /\ alloc.recheck < alloc.size + 500

\* C19 as claimed: one call of optimizedMalloc makes at most one reclamation
\* attempt, and returns null without allocating when free memory is still
\* below size + 500 after it.
AllocReclaimsAtMostOnce ==
    Allocated =>
        /\ alloc.gc <= 1
        /\ GivesUp => (alloc.ptr = "nullptr" /\ ~alloc.malloc)

\* C19: one call of optimizedMalloc makes at most one reclamation attempt
\* of its own, when the first reading is below size + 1000, and returns null
\* without allocating and without sampling when the reading after it is
\* below size + 500; the checkMemory it runs after a successful malloc can
\* make one more attempt, so a call makes at most two.  While the call waits
\* in its own attempt it has made that one attempt and has not allocated.
AllocReclaimsBounded ==
    /\ wait.in = "optimizedMalloc" =>
           /\ ~Allocated
           /\ alloc.low /\ alloc.gc = 1 /\ ~alloc.malloc /\ ~alloc.sampled
    /\ Allocated =>
           /\ alloc.gcBefore = IF alloc.low THEN 1 ELSE 0
           /\ alloc.gc <= 2
           /\ alloc.gc > alloc.gcBefore =>
                  /\ alloc.gc = alloc.gcBefore + 1
                  /\ alloc.ptr = "block"
                  /\ alloc.sampled /\ alloc.logged /\ alloc.currentFree < 5000
           /\ GivesUp => (alloc.ptr = "nullptr" /\ ~alloc.malloc /\ ~alloc.sampled)
           /\ ~GivesUp => alloc.malloc

AllocReclaimsTwice ==
    /\ Allocated
    /\ alloc.gc = 2
    /\ alloc.ptr = "block"



(***************************************************************************)
(* The state-change events, checked under SpecPresence.                    *)
(***************************************************************************)
\* The number of changes of current in step j: by the silence test, by the
\* observation.
ChangesIn(j) ==
    (IF trace[j].silenced.current # trace[j].before.current THEN 1 ELSE 0)
    + (IF trace[j].after.current # trace[j].silenced.current THEN 1 ELSE 0)

\* C21: an event is emitted for every change of current and for nothing
\* else, so the new_state of successive events alternates, PRESENT first; an
\* observation whose classification agrees with the state it meets, and a
\* step without observation taken in ABSENT, emit no event.
EventsOnlyOnChange ==
    /\ events = EmittedIn(1, Len(trace))
    /\ \A i \in 1..Len(events) :
           events[i].new_state = IF i % 2 = 1 THEN "PRESENT" ELSE "ABSENT"
    /\ presence.current = IF Len(events) % 2 = 1 THEN "PRESENT" ELSE "ABSENT"
    /\ \A j \in 1..Len(trace) :
           /\ Len(trace[j].emitted) = ChangesIn(j)
           /\ (trace[j].observed
                /\ StateFor(trace[j].cls) = trace[j].silenced.current)
                  => /\ trace[j].after.current = trace[j].silenced.current
                     /\ Len(trace[j].emitted) =
                            IF trace[j].silenced.current # trace[j].before.current
                            THEN 1 ELSE 0
           /\ (~trace[j].observed /\ trace[j].before.current = "ABSENT")
                  => trace[j].emitted = <<>>

\* PRESENT, ABSENT by silence, a further silence that emits nothing, an
\* agreeing sample that emits nothing, PRESENT again.
EventsAlternateAcrossSilence ==
    /\ Len(events) = 3
    /\ \E j \in 1..Len(trace) :
           /\ ~trace[j].observed
           /\ trace[j].before.current = "ABSENT"
           /\ trace[j].elapsed > MAC_DETECTION_TIMEOUT
           /\ trace[j].emitted = <<>>
    /\ \E j \in 1..Len(trace) :
           /\ trace[j].observed
           /\ StateFor(trace[j].cls) = trace[j].before.current
           /\ trace[j].emitted = <<>>



(***************************************************************************)
(* optimizedProcessMessage and what the handler held before the call,      *)
(* checked under SpecProcess.                                              *)
(***************************************************************************)
\* The handler as the program starts with it.
FreshHandler == [bufferPos |-> 0, buffer |-> [i \in 0..MAX_MESSAGE_LENGTH-1 |-> 0]]

\* The same call made with a handler that has never been used.
FreshCall ==
    optimizedProcessMessage(FreshHandler, input, Junk(outputSize), outputSize)

\* C22: whatever the handler held before the call, the call writes what the
\* same call with an unused handler writes, and leaves the handler as that
\* call leaves it: nothing of the earlier content is in the output.
ProcessIgnoresEarlierContent ==
    Processed =>
        \E f \in {FreshCall} :
            /\ output = f.output
            /\ outside = f.outside
            /\ path = f.path
            /\ rendered = f.rendered
            /\ refused = f.refused
            /\ globalStringHandler = f.h

\* The handler held "old"; the call rendered fields and none of "old" is in
\* the output.
ProcessAfterEarlierUse ==
    /\ Processed
    /\ last.pre.bufferPos = 3
    /\ last.pre.buffer[0] = 111
    /\ path = "fields"
    /\ rendered = {1, 2}
    /\ outputSize = MAX_MESSAGE_LENGTH
    /\ CString(output) = Lines(payload, {1, 2})


\* ---------------------------------------------------------------------------
\* Appends of a rendered field

\* The handler holds whole lines only: it is empty or ends with the separator.
WholeLines(h) ==
    LET str == getString(h) IN str = <<>> \/ str[Len(str)] = 10

\* C23: on the labeled-field path, no append() made for a field whose guard
\* passed returns false (label, every value byte, line separator), and the
\* handler holds exactly the complete lines of the rendered fields: never a
\* label without its whole value, nor a value without its separator.
RenderedFieldAppendsSucceed ==
    (Processed /\ path = "fields") =>
        /\ refused = 0
        /\ WholeLines(globalStringHandler)
        /\ getString(globalStringHandler) = Lines(payload, rendered)

\* A student_name of the longest length the guard admits was rendered whole.
LongestAdmittedFieldRendered ==
    /\ Processed /\ path = "fields" /\ 1 \in rendered /\ refused = 0
    /\ Len(ValueOf(payload, "student_name")) = MAX_MESSAGE_LENGTH - 21
    /\ length(globalStringHandler) = MAX_MESSAGE_LENGTH - 11

\* ---------------------------------------------------------------------------
\* A "message" field that cannot be used

\* The payload has a "message" field, and its value is too long for the
\* short-circuit or its closing quote did not arrive.
MessageUnusable ==
    /\ Structured
    /\ HasField(payload, "message")
    /\ \/ ~Terminated(payload, "message")
       \/ Len(ValueOf(payload, "message")) >= MAX_MESSAGE_LENGTH - 1

\* The payload written without its "message" field.
WithoutMessage(p) ==
    [kind   |-> p.kind,
     items  |-> SelectSeq(p.items, LAMBDA f : f.key # "message"),
     closed |-> p.closed \/ p.items[Len(p.items)].key = "message"]

OtherFieldsCall ==
    optimizedProcessMessage(FreshHandler, RenderPayload(WithoutMessage(payload)),
                            Junk(outputSize), outputSize)

\* No byte of str is a byte of the "message" value.
NoMessageByte(str) ==
    \A i \in 1..Len(str) :
        \A j \in 1..Len(ValueOf(payload, "message")) :
            str[i] # ValueOf(payload, "message")[j]

\* C24: when the "message" value is too long or has no closing quote, the
\* call takes the labeled-field scan and writes inside the array; the output
\* is byte for byte what the same payload without its "message" field gives,
\* so it holds no part of that value: the lines of the other fields the scan renders, cut
\* at output_capacity - 1, and the empty string when there is no other
\* recognized field.
UnusableMessageFallsThrough ==
    (Processed /\ MessageUnusable) =>
        /\ pc = "done"
        /\ path = "fields"
        /\ outside = {}
        /\ output = OtherFieldsCall.output
        /\ CString(output) =
               Take(Lines(payload, QualifyingFields(payload)), outputSize - 1)
        /\ PresentFields(payload) = {} => CString(output) = <<>>

\* A "message" value one byte too long, with its closing quote, next to a
\* student name: the output is the student's line alone and holds none of the
\* value's bytes.
TooLongMessageLeavesStudentLine ==
    /\ Processed /\ MessageUnusable /\ Terminated(payload, "message")
    /\ Len(ValueOf(payload, "message")) = MAX_MESSAGE_LENGTH - 1
    /\ PresentFields(payload) = {1}
    /\ outputSize = MAX_MESSAGE_LENGTH
    /\ CString(output) = Line(payload, 1)
    /\ Len(ValueOf(payload, "student_name")) = 5
    /\ NoMessageByte(CString(output))

\* A "message" value cut off before its closing quote, and no other
\* recognized field: the output is empty.
UnclosedMessageLeavesNothing ==
    /\ Processed /\ MessageUnusable /\ ~Terminated(payload, "message")
    /\ Len(ValueOf(payload, "message")) = 2
    /\ PresentFields(payload) = {}
    /\ CString(output) = <<>>

=============================================================================
